---- MODULE Spec2Model ----
(***************************************************************************)
(* The azurerm_role_definition and azurerm_postgresql_active_directory_    *)
(* administrator resource handlers as one sequential state machine: the    *)
(* host framework invokes one lifecycle handler at a time, each handler    *)
(* runs to its return through its API calls, whose answers are chosen by   *)
(* the environment.                                                        *)
(*                                                                         *)
(* Encodings.  A Go pointer is a sequence of length <= 1: <<>> is nil and  *)
(* <<v>> points to v.  A remote role definition ID is the sequence of its  *)
(* parts around "roleDefinitions/": <<>> is the empty string, <<p, r>> is  *)
(* p ++ "roleDefinitions/" ++ r, <<x>> has no such separator.  A stored    *)
(* role definition identifier is the sequence of its parts around "|":     *)
(* <<>> is the empty string, <<rid, scope>> is rid ++ "|" ++ scope.        *)
(***************************************************************************)
EXTENDS Integers, Sequences, FiniteSets, TLC

\* ------------------------------------------------------------------ bounds
\* Longest caller-supplied assignable_scopes list.
MaxScopes == 2
\* The caller's update timeout, in poll intervals of 10 seconds.
MaxPolls == 6
\* Longest permissions list of a configuration.
MaxPermissions == 2

\* --------------------------------------------------------------- constants
\* StateChangeConf.ContinuousTargetOccurence of the Update's wait.
ContinuousTargetOccurence == 5

\* ------------------------------------------------------------ value spaces
Nil == <<>>
Ptr(v) == <<v>>
Deref(p) == p[1]

\* The scopes a resource is configured with, and the entries of
\* assignable_scopes.
Scopes == {"s1", "s2"}
ScopeEntries == {"s1", "s2", "s3"}
\* role_definition_id as the caller supplies it ("" when left out).
SuppliedRoleIds == {"", "r1"}
\* The identifier uuid.GenerateUUID mints.
MintedRoleId == "u1"
\* createdOn / updatedOn instants.
Times == {1, 2}

EmptyStr == <<>>
\* The ID the API gives a role definition at (scope, roleId).
RemoteId(scope, roleId) == <<scope, roleId>>
\* An ID without "roleDefinitions/" in it.
ForeignId == <<"x">>

\* Sequences over S of length at most n.
SeqUpTo(S, n) == UNION {[1..k -> S] : k \in 0..n}

\* An interface{} value is a pointer: Nil, or Ptr(v) holding v.  The
\* collections a permissions block is configured with: actions and
\* not_actions are lists (an element the configuration left null is Nil),
\* data_actions and not_data_actions are sets of strings.
ActionLists ==
    {<<>>, <<Ptr("a1")>>, <<Ptr("a1"), Ptr("a2")>>, <<Ptr("a2"), Ptr("a1")>>,
     <<Nil, Ptr("a1")>>}
NotActionLists == {<<>>, <<Ptr("a2"), Ptr("a2")>>}
DataActionSets == {{}, {Ptr("d1")}, {Ptr("d1"), Ptr("d2")}}
NotDataActionSets == {{}, {Ptr("d2")}}
\* A permissions block: Nil when the block is empty.
PermissionBlocks ==
    {Nil} \cup
    {Ptr([actions |-> a, data_actions |-> da, not_actions |-> na,
          not_data_actions |-> nda]) :
        a \in ActionLists, da \in DataActionSets, na \in NotActionLists,
        nda \in NotDataActionSets}
\* The strings of the sets, in the order of their schema.HashString codes.
HashOrder == <<"d2", "d1">>

\* ---------------------------------------------------------- pure functions
\* fmt.Sprintf("%s|%s", id, scope)
CompositeId(rid, scope) == <<rid, scope>>

\* parse.RoleDefinitionId: the identifier has two parts around "|" and its
\* first part two parts around "roleDefinitions/".
RoleDefinitionIdParses(input) ==
    /\ Len(input) = 2
    /\ Len(input[1]) = 2

\* The loop of expandRoleDefinitionAssignableScopes over the first n entries:
\* scopes starts as <<assignedScope>> and every entry that differs from it
\* is appended.
RECURSIVE ExpandLoop(_, _, _)
ExpandLoop(assignedScope, assignableScopes, n) ==
    IF n = 0 THEN <<assignedScope>>
    ELSE LET scopes == ExpandLoop(assignedScope, assignableScopes, n - 1)
             scope == assignableScopes[n]
         IN  IF scope # assignedScope THEN Append(scopes, scope) ELSE scopes

RECURSIVE ExpandLoopNoDedup(_, _, _)
ExpandLoopNoDedup(assignedScope, assignableScopes, n) ==
    IF n = 0 THEN <<assignedScope>>
    ELSE Append(ExpandLoopNoDedup(assignedScope, assignableScopes, n - 1),
                assignableScopes[n])

expandRoleDefinitionAssignableScopesNoDedup(assignedScope, assignableScopes) ==
    ExpandLoopNoDedup(assignedScope, assignableScopes, Len(assignableScopes))

expandRoleDefinitionAssignableScopes(assignedScope, assignableScopes) ==
    ExpandLoop(assignedScope, assignableScopes, Len(assignableScopes))

\* schema.Set.List: the members in the order of their hash codes.
SetList(set) ==
    LET Member(x) == Ptr(x) \in set
        listed == SelectSeq(HashOrder, Member)
    IN  [i \in 1..Len(listed) |-> Ptr(listed[i])]

\* schema.NewSet(schema.HashString, items)
NewSet(items) == {items[i] : i \in 1..Len(items)}

\* utils.FlattenStringSlice: every string of the slice as an interface{},
\* nothing for a nil slice.
FlattenStringSlice(input) ==
    IF input = Nil THEN <<>>
    ELSE [i \in 1..Len(Deref(input)) |-> Ptr(Deref(input)[i])]

\* One inner loop of expandRoleDefinitionPermissions: the nil elements are
\* skipped, the others asserted to be strings and appended.
ExpandStrings(list) ==
    LET NotNil(a) == a # Nil
        kept == SelectSeq(list, NotNil)
    IN  [i \in 1..Len(kept) |-> Deref(kept[i])]

\* The body of the loop of expandRoleDefinitionPermissions.
ExpandPermission(raw) ==
    [Actions |-> Ptr(ExpandStrings(raw.actions)),
     DataActions |-> Ptr(ExpandStrings(SetList(raw.data_actions))),
     NotActions |-> Ptr(ExpandStrings(raw.not_actions)),
     NotDataActions |-> Ptr(ExpandStrings(SetList(raw.not_data_actions)))]

expandRoleDefinitionPermissions(input) ==
    IF Len(input) = 0 THEN <<>>
    ELSE LET NotNil(v) == v # Nil
             kept == SelectSeq(input, NotNil)
         IN  [i \in 1..Len(kept) |-> ExpandPermission(Deref(kept[i]))]

FlattenPermissionCopyPaste(permission) ==
    Ptr([actions |-> FlattenStringSlice(permission.Actions),
         data_actions |-> NewSet(FlattenStringSlice(permission.DataActions)),
         not_actions |-> FlattenStringSlice(permission.Actions),
         not_data_actions |-> NewSet(FlattenStringSlice(permission.NotDataActions))])

\* The body of the loop of flattenRoleDefinitionPermissions.
FlattenPermission(permission) ==
    Ptr([actions |-> FlattenStringSlice(permission.Actions),
         data_actions |-> NewSet(FlattenStringSlice(permission.DataActions)),
         not_actions |-> FlattenStringSlice(permission.NotActions),
         not_data_actions |-> NewSet(FlattenStringSlice(permission.NotDataActions))])

flattenRoleDefinitionPermissions(input) ==
    IF input = Nil THEN <<>>
    ELSE [i \in 1..Len(Deref(input)) |-> FlattenPermission(Deref(input)[i])]

\* -------------------------------------------------------------------- state
VARIABLES
    op,          \* the handler running: "none" between invocations
    pc,          \* its position
    err,         \* what it returned: "none" while running, "nil", an error, "panic"
    errId,       \* the identifier an already-exists error names
    calls,       \* the API calls this invocation has issued
    lastGet,     \* the kind of answer of its last Get or Delete call
    respId,      \* the ID it last took from an answer (existing.ID, read.ID, resp.ID)
    idAtStart,   \* d.Id() when the handler was invoked
    rdId,        \* d.Id() of the role definition
    abId,        \* d.Id() of the administrator binding
    isNew,       \* d.IsNewResource()
    cfgScope,    \* d.Get("scope")
    cfgAssignable, \* d.Get("assignable_scopes")
    roleDefinitionId, \* the local roleDefinitionId of Create
    sentScopes,  \* AssignableScopes of the payload of the last upsert call
    expected,    \* expectedUpdateDate of the poll
    targetOccurence, \* the wait's count of consecutive target observations
    polls,       \* poll intervals elapsed since the wait began
    obs,         \* the states the refresh function has reported, in order
    lastResp,    \* the answer the last refresh read
    permissionsRaw, \* d.Get("permissions")
    permissions, \* the Permissions of the payload expanded from it
    flattened,   \* what flattenRoleDefinitionPermissions made of the payload
    permPc       \* how far the permissions have come: "raw", "expanded", "flattened"

vars == <<op, pc, err, errId, calls, lastGet, respId, idAtStart, rdId, abId, isNew,
          cfgScope, cfgAssignable, roleDefinitionId, sentScopes, expected,
          targetOccurence, polls, obs, lastResp,
          permissionsRaw, permissions, flattened, permPc>>

ids == <<rdId, abId>>
config == <<isNew, cfgScope, cfgAssignable, roleDefinitionId>>
poll == <<expected, targetOccurence, polls, obs, lastResp>>
perms == <<permissionsRaw, permissions, flattened, permPc>>

NoResp == [kind |-> "none", hasProps |-> FALSE, createdOn |-> Nil, updatedOn |-> Nil]

\* No handler has been invoked.
HandlersIdle ==
    /\ op = "none"
    /\ pc = "idle"
    /\ err = "none"
    /\ errId = <<>>
    /\ calls = {}
    /\ lastGet = "none"
    /\ respId = Nil
    /\ idAtStart = <<>>
    /\ rdId = <<>>
    /\ abId = ""
    /\ isNew = FALSE
    /\ cfgScope = "s1"
    /\ cfgAssignable = <<>>
    /\ roleDefinitionId = ""
    /\ sentScopes = <<>>
    /\ expected = Nil
    /\ targetOccurence = 0
    /\ polls = 0
    /\ obs = <<>>
    /\ lastResp = NoResp

Init ==
    /\ HandlersIdle
    /\ permissionsRaw = <<>>
    /\ permissions = <<>>
    /\ flattened = <<>>
    /\ permPc = "raw"

\* A handler is invoked: the record of the previous invocation is dropped.
Invoke(name, id) ==
    /\ op = "none"
    /\ op' = name
    /\ errId' = <<>>
    /\ lastGet' = "none"
    /\ respId' = Nil
    /\ idAtStart' = id
    /\ sentScopes' = <<>>
    /\ expected' = Nil
    /\ targetOccurence' = 0
    /\ polls' = 0
    /\ obs' = <<>>
    /\ lastResp' = NoResp
    /\ UNCHANGED perms

\* The handler returns e.
Return(e) ==
    /\ pc' = "done"
    /\ err' = e

\* The handler goes on to step at.
Goto(at) ==
    /\ pc' = at
    /\ err' = "none"

\* What an API call can answer: the object, a 404, any other failure.
GetKinds == {"ok", "notFound", "error"}

\* ----------------------------------------------- Role Definition: Create
\* existing.ID != nil && *existing.ID != ""
ExistingNeverFound(id) == FALSE

ExistingFound(id) == id # Nil /\ Deref(id) # EmptyStr

\* read.ID == nil || *read.ID == ""
ReadIdMissing(id) == id = Nil \/ Deref(id) = EmptyStr

\* The IDs a Get at (scope, roleId) can carry.
GetIds(scope, roleId) ==
    {Nil, Ptr(EmptyStr), Ptr(RemoteId(scope, roleId)), Ptr(ForeignId)}

\* The framework calls Create for a resource without identifier.  The role
\* id is the caller's, or minted when the caller gave none.
RDCreate ==
    /\ rdId = <<>>
    /\ Invoke("rdCreate", rdId)
    /\ calls' = {}
    /\ \E supplied \in SuppliedRoleIds, scope \in Scopes,
          assignable \in SeqUpTo(ScopeEntries, MaxScopes), new \in BOOLEAN,
          uuidOk \in BOOLEAN :
        /\ cfgScope' = scope
        /\ cfgAssignable' = assignable
        /\ isNew' = new
        /\ IF supplied = "" /\ ~uuidOk
           THEN /\ roleDefinitionId' = ""
                /\ Return("generatingUUID")
           ELSE /\ roleDefinitionId' = IF supplied = "" THEN MintedRoleId ELSE supplied
                /\ Goto(IF new THEN "create.check" ELSE "create.upsert")
    /\ UNCHANGED ids

RDCreateCheckExisting ==
    /\ op = "rdCreate" /\ pc = "create.check"
    /\ calls' = calls \cup {"Get"}
    /\ \E kind \in GetKinds :
        /\ lastGet' = kind
        /\ \E id \in (IF kind = "ok" THEN GetIds(cfgScope, roleDefinitionId) ELSE {Nil}) :
            /\ respId' = id
            /\ IF kind = "error"
               THEN Return("checkingExisting") /\ UNCHANGED errId
               ELSE IF ExistingFound(id)
               THEN /\ errId' = CompositeId(Deref(id), cfgScope)
                    /\ Return("importAsExists")
               ELSE Goto("create.upsert") /\ UNCHANGED errId
    /\ UNCHANGED <<perms, op, idAtStart, ids, config, sentScopes, poll>>

RDCreateUpsert ==
    /\ op = "rdCreate" /\ pc = "create.upsert"
    /\ calls' = calls \cup {"CreateOrUpdate"}
    /\ sentScopes' = expandRoleDefinitionAssignableScopes(cfgScope, cfgAssignable)
    /\ \E kind \in {"ok", "error"} :
        IF kind = "error" THEN Return("upsert") ELSE Goto("create.reread")
    /\ UNCHANGED <<perms, op, errId, lastGet, respId, idAtStart, ids, config, poll>>

RDCreateReRead ==
    /\ op = "rdCreate" /\ pc = "create.reread"
    /\ calls' = calls \cup {"Get"}
    /\ \E kind \in GetKinds :
        /\ lastGet' = kind
        /\ \E id \in (IF kind = "ok" THEN GetIds(cfgScope, roleDefinitionId) ELSE {Nil}) :
            /\ respId' = id
            /\ IF kind # "ok"
               THEN Return("reread") /\ UNCHANGED rdId
               ELSE IF ReadIdMissing(id)
               THEN Return("cannotReadId") /\ UNCHANGED rdId
               ELSE /\ rdId' = CompositeId(Deref(id), cfgScope)
                    /\ Goto("read")
    /\ UNCHANGED <<perms, op, errId, idAtStart, abId, config, sentScopes, poll>>

\* ------------------------------------------------- Role Definition: Read
\* What Read does with a failed fetch: a 404 clears the identifier and is
\* no error, anything else is an error.
ReadFailureKeepsId(kind, id) ==
    IF kind = "notFound" THEN [id |-> id, err |-> "nil"]
    ELSE [id |-> id, err |-> "loading"]

ReadFailure(kind, id) ==
    IF kind = "notFound" THEN [id |-> <<>>, err |-> "nil"]
    ELSE [id |-> id, err |-> "loading"]

\* The framework refreshes a resource that has an identifier.
RDReadInvoke ==
    /\ rdId # <<>>
    /\ Invoke("rdRead", rdId)
    /\ calls' = {}
    /\ Goto("read")
    /\ UNCHANGED <<ids, config>>

\* resourceArmRoleDefinitionRead, also the last step of Create and Update.
RDRead ==
    /\ op \in {"rdRead", "rdCreate", "rdUpdate"} /\ pc = "read"
    /\ IF ~RoleDefinitionIdParses(rdId)
       THEN /\ Return("parse")
            /\ UNCHANGED <<calls, lastGet, rdId>>
       ELSE /\ calls' = calls \cup {"Get"}
            /\ \E kind \in GetKinds :
                /\ lastGet' = kind
                /\ IF kind = "ok"
                   THEN Return("nil") /\ UNCHANGED rdId
                   ELSE /\ rdId' = ReadFailure(kind, rdId).id
                        /\ Return(ReadFailure(kind, rdId).err)
    /\ UNCHANGED <<perms, op, errId, respId, idAtStart, abId, config, sentScopes, poll>>

\* ----------------------------------------------- Role Definition: Update
\* The refresh function's verdict on an object that carries both timestamps.
RefreshStateUpdatedOnOnly(createdOn, updatedOn, expectedUpdateDate) ==
    IF updatedOn # expectedUpdateDate THEN "Pending" ELSE "Updated"

RefreshState(createdOn, updatedOn, expectedUpdateDate) ==
    IF createdOn = expectedUpdateDate THEN "Pending"
    ELSE IF updatedOn # expectedUpdateDate THEN "Pending"
    ELSE "Updated"

\* roleDefinitionEventualConsistencyUpdate on one answer of Get: the state it
\* reports, or "panic" where it dereferences a nil UpdatedOn.
Refresh(kind, hasProps, createdOn, updatedOn, expectedUpdateDate) ==
    IF kind # "ok" THEN "Failed"
    ELSE IF ~hasProps THEN "Failed"
    ELSE IF createdOn = Nil THEN "Failed"
    ELSE IF updatedOn = Nil THEN "panic"
    ELSE RefreshState(Deref(createdOn), Deref(updatedOn), expectedUpdateDate)

\* Whether the wait has seen its target state often enough in a row, after
\* count such observations.
TargetReachedAtOnce(count) == count >= 1

TargetReached(count) == count = ContinuousTargetOccurence

\* What Update returns when WaitForState returns an error: "" stands for
\* going on to the final read.
WaitErrorIgnored(e) == ""

WaitError(e) == e

\* The framework updates a resource that has an identifier; scope forces a
\* new resource, so the configured scope is the one Create had.
RDUpdate ==
    /\ rdId # <<>>
    /\ Invoke("rdUpdate", rdId)
    /\ calls' = {}
    /\ \E assignable \in SeqUpTo(ScopeEntries, MaxScopes) :
        cfgAssignable' = assignable
    /\ isNew' = FALSE
    /\ IF ~RoleDefinitionIdParses(rdId)
       THEN Return("parse")
       ELSE Goto("update.upsert")
    /\ UNCHANGED <<ids, cfgScope, roleDefinitionId>>

RDUpdateUpsert ==
    /\ op = "rdUpdate" /\ pc = "update.upsert"
    /\ calls' = calls \cup {"CreateOrUpdate"}
    /\ sentScopes' = expandRoleDefinitionAssignableScopes(cfgScope, cfgAssignable)
    /\ \E kind \in {"ok", "error"}, hasProps \in BOOLEAN,
          updatedOn \in {Nil} \cup {Ptr(t) : t \in Times} :
        /\ kind = "error" => ~hasProps
        /\ ~hasProps => updatedOn = Nil
        /\ IF kind = "error" THEN Return("updating") /\ UNCHANGED expected
           ELSE IF ~hasProps THEN Return("propertiesNil") /\ UNCHANGED expected
           ELSE IF updatedOn = Nil THEN Return("updatedOnNil") /\ UNCHANGED expected
           ELSE /\ expected' = Ptr(Deref(updatedOn))
                /\ Goto("update.wait")
    /\ UNCHANGED <<perms, op, errId, lastGet, respId, idAtStart, ids, config,
                   targetOccurence, polls, obs, lastResp>>

\* One round of WaitForState before the timeout: the refresh function reads
\* the object; an error ends the wait, a target state counts towards
\* ContinuousTargetOccurence, a pending state resets the count.
RDUpdatePoll ==
    /\ op = "rdUpdate" /\ pc = "update.wait"
    /\ polls < MaxPolls
    /\ polls' = polls + 1
    /\ calls' = calls \cup {"Get"}
    /\ \E kind \in GetKinds, hasProps \in BOOLEAN,
          createdOn \in {Nil} \cup {Ptr(t) : t \in Times},
          updatedOn \in {Nil} \cup {Ptr(t) : t \in Times} :
        /\ kind # "ok" => ~hasProps
        /\ ~hasProps => createdOn = Nil /\ updatedOn = Nil
        /\ lastGet' = kind
        /\ lastResp' = [kind |-> kind, hasProps |-> hasProps,
                        createdOn |-> createdOn, updatedOn |-> updatedOn]
        /\ LET state == Refresh(kind, hasProps, createdOn, updatedOn, Deref(expected))
           IN  IF state = "panic"
               THEN /\ Return("panic")
                    /\ UNCHANGED <<obs, targetOccurence>>
               ELSE /\ obs' = Append(obs, state)
                    /\ IF state = "Failed"
                       THEN /\ UNCHANGED targetOccurence
                            /\ IF WaitError("waitFailed") = ""
                               THEN Goto("read")
                               ELSE Return(WaitError("waitFailed"))
                       ELSE IF state = "Updated"
                       THEN /\ targetOccurence' = targetOccurence + 1
                            /\ IF TargetReached(targetOccurence + 1)
                               THEN Goto("read")
                               ELSE Goto("update.wait")
                       ELSE /\ targetOccurence' = 0
                            /\ Goto("update.wait")
    /\ UNCHANGED <<perms, op, errId, respId, idAtStart, ids, config, sentScopes, expected>>

\* The wait's timeout passes before the target was seen often enough.
RDUpdateTimeout ==
    /\ op = "rdUpdate" /\ pc = "update.wait"
    /\ polls >= MaxPolls
    /\ IF WaitError("waitTimeout") = ""
       THEN Goto("read")
       ELSE Return(WaitError("waitTimeout"))
    /\ UNCHANGED <<perms, op, errId, calls, lastGet, respId, idAtStart, ids, config,
                   sentScopes, poll>>

\* ----------------------------------------------- Role Definition: Delete
\* What Delete returns for an answer of the delete call.
RoleDefinitionDeleteResult(kind) ==
    IF kind = "error" THEN "deleting" ELSE "nil"

\* The framework deletes a resource that has an identifier.
RDDeleteInvoke ==
    /\ rdId # <<>>
    /\ Invoke("rdDelete", rdId)
    /\ calls' = {}
    /\ Goto("delete")
    /\ UNCHANGED <<ids, config>>

\* resourceArmRoleDefinitionDelete drops the parse error: with an identifier
\* that does not parse, id is whatever the parser returned with its error,
\* nil (id.Scope panics) or a value (the call goes out).
RDDelete ==
    /\ op = "rdDelete" /\ pc = "delete"
    /\ \E idIsNil \in BOOLEAN, kind \in GetKinds :
        /\ idIsNil => ~RoleDefinitionIdParses(rdId)
        /\ idIsNil => kind = "ok"
        /\ IF idIsNil
           THEN /\ Return("panic")
                /\ UNCHANGED <<calls, lastGet>>
           ELSE /\ calls' = calls \cup {"Delete"}
                /\ lastGet' = kind
                /\ Return(RoleDefinitionDeleteResult(kind))
    /\ UNCHANGED <<perms, op, errId, respId, idAtStart, ids, config, sentScopes, poll>>

\* ------------------------------------------------ Administrator Binding
\* A binding's identifier is the API's resource path: "/rg1/srv1" names the
\* server srv1 of resource group rg1, "bad" is no resource path, "" is the
\* empty string.
BindingIds == {"/rg1/srv1", "bad"}

\* azure.ParseAzureResourceID
AzureResourceIDParses(id) == id = "/rg1/srv1"

\* What the binding's Read does with a failed fetch.
BindingReadFailure(kind, id) ==
    IF kind = "notFound" THEN [id |-> "", err |-> "nil"]
    ELSE [id |-> id, err |-> "reading"]

\* What the binding's Delete returns for an answer of the delete call.
BindingDeleteResultLenient(kind) ==
    IF kind = "error" THEN "deleting" ELSE "nil"

BindingDeleteResult(kind) ==
    IF kind # "ok" THEN "deleting" ELSE "nil"

\* Create (no identifier yet, a new resource) or Update (an identifier, not
\* new); the existence check runs for a new resource when the provider's
\* import feature is on.
ABCreateUpdate ==
    /\ Invoke("abCreateUpdate", <<abId>>)
    /\ calls' = {}
    /\ isNew' = (abId = "")
    /\ \E shouldBeImported \in BOOLEAN :
        Goto(IF shouldBeImported /\ abId = "" THEN "ab.check" ELSE "ab.upsert")
    /\ UNCHANGED <<ids, cfgScope, cfgAssignable, roleDefinitionId>>

ABCheckExisting ==
    /\ op = "abCreateUpdate" /\ pc = "ab.check"
    /\ calls' = calls \cup {"Get"}
    /\ \E kind \in GetKinds :
        /\ lastGet' = kind
        /\ \E id \in (IF kind = "ok" THEN {Nil, Ptr("")} \cup {Ptr(b) : b \in BindingIds}
                      ELSE {Nil}) :
            /\ respId' = id
            /\ IF kind = "error"
               THEN Return("checkingExisting") /\ UNCHANGED errId
               ELSE IF id # Nil /\ Deref(id) # ""
               THEN /\ errId' = <<Deref(id)>>
                    /\ Return("importAsExists")
               ELSE Goto("ab.upsert") /\ UNCHANGED errId
    /\ UNCHANGED <<perms, op, idAtStart, ids, config, sentScopes, poll>>

\* CreateOrUpdate and the wait for its future.
ABUpsert ==
    /\ op = "abCreateUpdate" /\ pc = "ab.upsert"
    /\ calls' = calls \cup {"CreateOrUpdate"}
    /\ \E outcome \in {"ok", "issueFailed", "waitFailed"} :
        IF outcome = "issueFailed" THEN Return("issuing")
        ELSE IF outcome = "waitFailed" THEN Return("waitingOnFuture")
        ELSE Goto("ab.get")
    /\ UNCHANGED <<perms, op, errId, lastGet, respId, idAtStart, ids, config, sentScopes, poll>>

\* The re-fetch; d.SetId(*resp.ID) dereferences whatever ID came back.
ABGet ==
    /\ op = "abCreateUpdate" /\ pc = "ab.get"
    /\ calls' = calls \cup {"Get"}
    /\ \E kind \in GetKinds :
        /\ lastGet' = kind
        /\ \E id \in (IF kind = "ok" THEN {Nil, Ptr("")} \cup {Ptr(b) : b \in BindingIds}
                      ELSE {Nil}) :
            /\ respId' = id
            /\ IF kind # "ok" THEN Return("get") /\ UNCHANGED abId
               ELSE IF id = Nil THEN Return("panic") /\ UNCHANGED abId
               ELSE abId' = Deref(id) /\ Return("nil")
    /\ UNCHANGED <<perms, op, errId, idAtStart, rdId, config, sentScopes, poll>>

\* The framework refreshes a binding that has an identifier.
ABReadInvoke ==
    /\ abId # ""
    /\ Invoke("abRead", <<abId>>)
    /\ calls' = {}
    /\ Goto("ab.read")
    /\ UNCHANGED <<ids, config>>

\* ImportStatePassthrough: the identifier the user names becomes d.Id()
\* as it is, and Read runs.
ABImport ==
    /\ abId = ""
    /\ \E id \in BindingIds :
        /\ abId' = id
        /\ Invoke("abRead", <<id>>)
    /\ calls' = {}
    /\ Goto("ab.read")
    /\ UNCHANGED <<rdId, config>>

\* With the fetch answered, resp.Login and resp.Sid.String() dereference the
\* object's properties and its Sid.
ABRead ==
    /\ op = "abRead" /\ pc = "ab.read"
    /\ IF ~AzureResourceIDParses(abId)
       THEN /\ Return("parse")
            /\ UNCHANGED <<calls, lastGet, abId>>
       ELSE /\ calls' = calls \cup {"Get"}
            /\ \E kind \in GetKinds, complete \in BOOLEAN :
                /\ kind # "ok" => ~complete
                /\ lastGet' = kind
                /\ IF kind = "ok"
                   THEN /\ Return(IF complete THEN "nil" ELSE "panic")
                        /\ UNCHANGED abId
                   ELSE /\ abId' = BindingReadFailure(kind, abId).id
                        /\ Return(BindingReadFailure(kind, abId).err)
    /\ UNCHANGED <<perms, op, errId, respId, idAtStart, rdId, config, sentScopes, poll>>

ABDeleteInvoke ==
    /\ abId # ""
    /\ Invoke("abDelete", <<abId>>)
    /\ calls' = {}
    /\ Goto("ab.delete")
    /\ UNCHANGED <<ids, config>>

ABDelete ==
    /\ op = "abDelete" /\ pc = "ab.delete"
    /\ IF ~AzureResourceIDParses(abId)
       THEN /\ Return("parse")
            /\ UNCHANGED <<calls, lastGet>>
       ELSE /\ calls' = calls \cup {"Delete"}
            /\ \E kind \in GetKinds :
                /\ lastGet' = kind
                /\ Return(BindingDeleteResult(kind))
    /\ UNCHANGED <<perms, op, errId, respId, idAtStart, ids, config, sentScopes, poll>>

\* ------------------------------------------------------- the host framework
\* The handler has returned and its locals are gone; the framework drops
\* the identifier of a resource whose Delete returned no error.
HandlerReturns ==
    /\ pc = "done"
    /\ op' = "none"
    /\ pc' = "idle"
    /\ rdId' = IF op = "rdDelete" /\ err = "nil" THEN <<>> ELSE rdId
    /\ abId' = IF op = "abDelete" /\ err = "nil" THEN "" ELSE abId
    /\ err' = "none"
    /\ errId' = <<>>
    /\ calls' = {}
    /\ lastGet' = "none"
    /\ respId' = Nil
    /\ idAtStart' = <<>>
    /\ isNew' = FALSE
    /\ cfgAssignable' = <<>>
    /\ roleDefinitionId' = ""
    /\ sentScopes' = <<>>
    /\ expected' = Nil
    /\ targetOccurence' = 0
    /\ polls' = 0
    /\ obs' = <<>>
    /\ lastResp' = NoResp
    /\ UNCHANGED <<perms, cfgScope>>

RDInvocation ==
    \/ RDCreate
    \/ RDReadInvoke
    \/ RDUpdate
    \/ RDDeleteInvoke

RDStep ==
    \/ RDCreateCheckExisting
    \/ RDCreateUpsert
    \/ RDCreateReRead
    \/ RDRead
    \/ RDUpdateUpsert
    \/ RDUpdatePoll
    \/ RDUpdateTimeout
    \/ RDDelete

ABInvocation ==
    \/ ABCreateUpdate
    \/ ABReadInvoke
    \/ ABImport
    \/ ABDeleteInvoke

ABStep ==
    \/ ABCheckExisting
    \/ ABUpsert
    \/ ABGet
    \/ ABRead
    \/ ABDelete

Next ==
    \/ RDInvocation
    \/ RDStep
    \/ ABInvocation
    \/ ABStep
    \/ HandlerReturns

\* Both resources under the framework.
Spec == Init /\ [][Next]_vars

\* The Role Definition alone: the two handlers share no state.
RDNext ==
    \/ RDInvocation
    \/ RDStep
    \/ HandlerReturns

\* A handler that has been invoked runs on: each of its calls returns, and
\* its wait ends at the timeout at the latest.
FairSpec == Init /\ [][RDNext]_vars /\ WF_vars(RDStep)

\* ------------------------------------------------- the permissions round trip
handlers == <<op, pc, err, errId, calls, lastGet, respId, idAtStart, ids, config,
              sentScopes, poll>>

\* Any configured permissions list.
PermInit ==
    /\ HandlersIdle
    /\ permissionsRaw \in SeqUpTo(PermissionBlocks, MaxPermissions)
    /\ permissions = <<>>
    /\ flattened = <<>>
    /\ permPc = "raw"

\* The configured list is expanded into the payload.
PermissionsExpand ==
    /\ permPc = "raw"
    /\ permissions' = expandRoleDefinitionPermissions(permissionsRaw)
    /\ permPc' = "expanded"
    /\ UNCHANGED <<handlers, permissionsRaw, flattened>>

\* The payload is flattened back.
PermissionsFlatten ==
    /\ permPc = "expanded"
    /\ flattened' = flattenRoleDefinitionPermissions(Ptr(permissions))
    /\ permPc' = "flattened"
    /\ UNCHANGED <<handlers, permissionsRaw, permissions>>

PermNext ==
    \/ PermissionsExpand
    \/ PermissionsFlatten

PermSpec == PermInit /\ [][PermNext]_vars

\* ------------------------------------------------------------------ claims
Last(seq) == seq[Len(seq)]

\* The last n observations exist and are all Updated.
LastAreUpdated(seq, n) ==
    /\ Len(seq) >= n
    /\ \A i \in (Len(seq) - n + 1)..Len(seq) : seq[i] = "Updated"

\* Some n consecutive observations are all Updated.
SomeRunOfUpdated(seq, n) ==
    \E i \in 1..Len(seq) :
        /\ i + n - 1 <= Len(seq)
        /\ \A j \in i..(i + n - 1) : seq[j] = "Updated"

IsError(e) == e \notin {"none", "nil", "panic"}

\* C1: Update goes on to its final read, and returns no error, only when the
\* last 5 observations of the poll were all Updated.
C1_SuccessOnlyAfterFiveUpdated ==
    (op = "rdUpdate" /\ (pc = "read" \/ (pc = "done" /\ err = "nil")))
        => LastAreUpdated(obs, 5)

\* C1 witness: Update has returned no error after a poll whose first
\* observation was Pending.
C1_Witness ==
    /\ op = "rdUpdate" /\ pc = "done" /\ err = "nil"
    /\ Len(obs) = 6 /\ obs[1] = "Pending"

\* C2: an observation of an object that carries both timestamps is Updated
\* exactly when createdOn differs from the expected date and updatedOn equals
\* it, and Pending otherwise.
C2_Classification ==
    (op = "rdUpdate" /\ lastResp.createdOn # Nil /\ lastResp.updatedOn # Nil)
        => LET c == Deref(lastResp.createdOn)
               u == Deref(lastResp.updatedOn)
               e == Deref(expected)
           IN  /\ obs # <<>>
               /\ Last(obs) \in {"Pending", "Updated"}
               /\ (Last(obs) = "Updated") <=> (c # e /\ u = e)

\* C2 witness: an object whose createdOn and updatedOn both equal the
\* expected date was observed, as Pending.
C2_Witness ==
    /\ op = "rdUpdate" /\ obs # <<>>
    /\ lastResp.createdOn = expected /\ lastResp.updatedOn = expected
    /\ expected # Nil
    /\ Last(obs) = "Pending"

\* C3: an observation whose fetch failed, or whose object lacks its
\* properties, createdOn or updatedOn, is reported as Failed, is the last
\* one, and Update returns an error.
C3_MalformedObservationIsError ==
    (op = "rdUpdate" /\ lastResp.kind # "none"
        /\ (lastResp.kind # "ok" \/ ~lastResp.hasProps
            \/ lastResp.createdOn = Nil \/ lastResp.updatedOn = Nil))
        => /\ pc = "done"
           /\ IsError(err)
           /\ obs # <<>> /\ Last(obs) = "Failed"
           /\ Len(obs) = polls

\* C4: the poll never runs past the timeout; an Update whose poll saw only
\* Pending and Updated observations, and no 5 Updated in a row, returns the
\* timeout error at the timeout and never success; and every Update returns.
C4_TimeoutSafety ==
    /\ polls <= MaxPolls
    /\ (op = "rdUpdate" /\ pc \in {"read", "done"} /\ expected # Nil
            /\ (\A i \in 1..Len(obs) : obs[i] \in {"Pending", "Updated"})
            /\ Len(obs) = polls
            /\ ~SomeRunOfUpdated(obs, 5))
        => (pc = "done" /\ err = "waitTimeout" /\ polls = MaxPolls)

C4_UpdateTerminates ==
    /\ []C4_TimeoutSafety
    /\ (op = "rdUpdate") ~> (pc = "done")

\* C4 witness: Update has returned the timeout error after a poll that
\* ended on four Updated observations.
C4_Witness ==
    /\ op = "rdUpdate" /\ pc = "done" /\ err = "waitTimeout"
    /\ LastAreUpdated(obs, 4)

\* C5: the list an upsert sends has the resource's scope first and only
\* there, followed by the caller's other entries in the caller's order.
C5_AssignableScopesSent ==
    ("CreateOrUpdate" \in calls /\ op \in {"rdCreate", "rdUpdate"})
        => LET IsOther(x) == x # cfgScope
           IN  /\ sentScopes # <<>>
               /\ sentScopes[1] = cfgScope
               /\ Cardinality({i \in 1..Len(sentScopes) : sentScopes[i] = cfgScope}) = 1
               /\ Tail(sentScopes) = SelectSeq(cfgAssignable, IsOther)

\* C5 witness: an upsert was sent for a caller's list that names the
\* resource's scope after another entry.
C5_Witness ==
    /\ op \in {"rdCreate", "rdUpdate"} /\ "CreateOrUpdate" \in calls
    /\ Len(cfgAssignable) = 2
    /\ cfgAssignable[1] # cfgScope /\ cfgAssignable[2] = cfgScope

\* C6: Create of a new resource whose existence check found a remote ID
\* returns the already-exists error naming "<remote id>|<scope>" at once;
\* with that error no upsert was issued and no identifier is stored.
C6_CreateExisting ==
    /\ (op = "rdCreate" /\ isNew /\ calls = {"Get"} /\ lastGet = "ok"
            /\ respId # Nil /\ Deref(respId) # EmptyStr)
        => /\ pc = "done"
           /\ err = "importAsExists"
           /\ errId = <<Deref(respId), cfgScope>>
    /\ (op = "rdCreate" /\ err = "importAsExists")
        => /\ "CreateOrUpdate" \notin calls
           /\ rdId = <<>>

\* C6 witness: Create with the caller's role_definition_id returned the
\* already-exists error.
C6_Witness ==
    /\ op = "rdCreate" /\ pc = "done" /\ err = "importAsExists"
    /\ roleDefinitionId = "r1"
    /\ respId = Ptr(RemoteId(cfgScope, "r1"))

\* C7: whenever Create returns no error the stored identifier is
\* "<remote id>|<scope>" of the re-read's ID; a failed upsert or re-read, or
\* a re-read without ID, makes Create return an error with no identifier
\* stored.
C7_CreateStoresCompositeId ==
    /\ (op = "rdCreate" /\ pc = "done" /\ err = "nil")
        => (respId # Nil /\ rdId = <<Deref(respId), cfgScope>>)
    /\ (op = "rdCreate" /\ err \in {"upsert", "reread", "cannotReadId"})
        => rdId = <<>>
    /\ (op = "rdCreate" /\ pc = "done" /\ "CreateOrUpdate" \in calls
            /\ (respId = Nil \/ Deref(respId) = EmptyStr))
        => err \in {"upsert", "reread", "cannotReadId"}

\* C8: a Read whose fetch answered not-found clears the identifier and
\* returns no error; one whose fetch failed otherwise returns an error and
\* leaves the identifier as it was.  For both handlers.
C8_ReadAfterRemoteDeletion ==
    /\ (op = "rdRead" /\ pc = "done" /\ lastGet = "notFound")
        => (rdId = <<>> /\ err = "nil")
    /\ (op = "rdRead" /\ pc = "done" /\ lastGet = "error")
        => (rdId = idAtStart /\ IsError(err))
    /\ (op = "abRead" /\ pc = "done" /\ lastGet = "notFound")
        => (abId = "" /\ err = "nil")
    /\ (op = "abRead" /\ pc = "done" /\ lastGet = "error")
        => (<<abId>> = idAtStart /\ IsError(err))

\* C8 witness: a Role Definition Read of a stored identifier got not-found.
C8_Witness ==
    /\ op = "rdRead" /\ pc = "done" /\ lastGet = "notFound"
    /\ idAtStart # <<>>

\* C9: with not-found from the delete call the Role Definition's Delete
\* returns no error and the binding's returns an error; with any other
\* failure both return an error.
C9_DeleteNotFound ==
    /\ (op = "rdDelete" /\ pc = "done" /\ lastGet = "notFound") => err = "nil"
    /\ (op = "rdDelete" /\ pc = "done" /\ lastGet = "error") => IsError(err)
    /\ (op = "abDelete" /\ pc = "done" /\ lastGet = "notFound") => IsError(err)
    /\ (op = "abDelete" /\ pc = "done" /\ lastGet = "error") => IsError(err)

\* C9 witness: the binding's Delete got not-found from the delete call.
C9_Witness ==
    op = "abDelete" /\ pc = "done" /\ lastGet = "notFound"

\* C10: Read, Update and Delete of a Role Definition, and Read and Delete of
\* a binding, invoked with an identifier that does not parse return an error
\* without having issued an API call.
C10_MalformedIdFailsFirst ==
    /\ (op \in {"rdRead", "rdUpdate", "rdDelete"} /\ pc = "done"
            /\ ~RoleDefinitionIdParses(idAtStart))
        => (IsError(err) /\ calls = {})
    /\ (op \in {"abRead", "abDelete"} /\ pc = "done"
            /\ ~AzureResourceIDParses(idAtStart[1]))
        => (IsError(err) /\ calls = {})

\* C11: expanding a permissions list whose blocks each carry their four
\* collections of strings and flattening the payload back gives as many
\* blocks in the same order, each with the same actions and not_actions
\* lists and the same data_actions and not_data_actions sets.
CarriesAll(block) ==
    /\ block # Nil
    /\ \A i \in 1..Len(Deref(block).actions) : Deref(block).actions[i] # Nil
    /\ \A i \in 1..Len(Deref(block).not_actions) : Deref(block).not_actions[i] # Nil

AllCarryAll ==
    \A i \in 1..Len(permissionsRaw) : CarriesAll(permissionsRaw[i])

C11_RoundTrip ==
    (permPc = "flattened" /\ AllCarryAll)
        => /\ Len(flattened) = Len(permissionsRaw)
           /\ \A i \in 1..Len(permissionsRaw) :
                LET in == Deref(permissionsRaw[i])
                    out == Deref(flattened[i])
                IN  /\ out.actions = in.actions
                    /\ out.not_actions = in.not_actions
                    /\ out.data_actions = in.data_actions
                    /\ out.not_data_actions = in.not_data_actions

C11_Witness ==
    /\ permPc = "flattened"
    /\ AllCarryAll
    /\ Len(permissionsRaw) = MaxPermissions
    /\ permissionsRaw[1] # permissionsRaw[2]
    /\ Len(Deref(permissionsRaw[1]).actions) > 1
    /\ Len(Deref(permissionsRaw[1]).not_actions) > 1
    /\ Cardinality(Deref(permissionsRaw[1]).data_actions) > 1
    /\ Deref(permissionsRaw[1]).not_data_actions # {}
    /\ flattened = permissionsRaw

====
